---- MODULE Spec2Model ----
(***************************************************************************)
(* ReconnectWebSocket (src/ReconnectWebSocket.js): a wrapper that owns at  *)
(* most one transport (a `ws` WebSocket) and re-opens it after a close.    *)
(*                                                                         *)
(* The instance runs on a single-threaded event loop, so every handler     *)
(* (transport callback, timer callback, public method) is one atomic       *)
(* action.  Time is abstracted: a pending timer may fire at any moment.    *)
(* The transport is the environment: it may open, close, deliver a message *)
(* or an error whenever its own state allows it.                           *)
(***************************************************************************)
EXTENDS Integers, Sequences, FiniteSets

\* ---------------------------------------------------------------- bounds
\* Transports constructed during one run (the constructor's one included).
MaxTransports == 4
\* Calls of transport.send() recorded during one run.
MaxSends == 1

\* ------------------------------------------------------ program constants
\* settings.reconnectInterval, in milliseconds.
reconnectInterval == 1000
\* settings.maxReconnectInterval: 30000 * 2 * 5.
DefaultMaxReconnectInterval == 300000
\* settings.reconnectDecay is 1.5, kept exact as DecayNum / DecayDen.
DecayNum == 3
DecayDen == 2

Null == 0
Transports == 1..MaxTransports
Data == {"a", "b"}

VARIABLES
    \* options merged over the settings by the constructor; never written again
    reconnectAttempt,      \* settings.reconnectAttempt (default false)
    maxReconnectAttempts,  \* settings.maxReconnectAttempts; Null is `null`
    maxReconnectInterval,  \* settings.maxReconnectInterval
    syncClose,             \* the transport delivers close inside its close()
    \* fields of the instance
    readyState, protocol, ws, forcedClose, timedOut, reconnectAttempts,
    \* pending timers
    stall,                 \* transports whose stall timer is pending
    retry,                 \* delays of the pending retry timers
    \* the transports constructed so far
    nconstructed, tstate, wired, received,
    \* what the last handler did, as seen from outside
    emitted, lastOp, result,
    \* history
    byRetry,               \* transports constructed by a retry timer
    closeEvents,           \* `close` events emitted since the last `open`
    fails,                 \* unforced transport closes since the last open
    firings,               \* retry-timer firings since the last open
    everOpened,            \* some transport has reached OPEN
    stallClosed            \* transports whose close the stall timer requested,
                           \* since the last transport was constructed

config == <<reconnectAttempt, maxReconnectAttempts, maxReconnectInterval, syncClose>>
fields == <<readyState, protocol, ws, forcedClose, timedOut, reconnectAttempts>>
timers == <<stall, retry>>
transports == <<nconstructed, tstate, wired, received>>
observed == <<emitted, lastOp, result>>
history == <<byRetry, closeEvents, fails, firings, everOpened, stallClosed>>
vars == <<config, fields, timers, transports, observed, history>>

\* ----------------------------------------------------------------- events
Ev(type) == [type |-> type, isReconnect |-> FALSE]
OpenEv(isReconnect) == [type |-> "open", isReconnect |-> isReconnect]
Op(op, t) == [op |-> op, t |-> t, data |-> "none"]
SendOp(t, data) == [op |-> "send", t |-> t, data |-> data]

CountOf(type, evs) == Cardinality({i \in DOMAIN evs : evs[i].type = type})

\* Faulty variant of RemoveAt: the timer is not one-shot.
RemoveAt_Kept(s, i) == s

\* The pending timers once the i-th has fired (setTimeout is one-shot).
RemoveAt(s, i) == SubSeq(s, 1, i - 1) \o SubSeq(s, i + 1, Len(s))

\* ----------------------------------------------------------------- backoff
RECURSIVE Pow(_, _)
Pow(b, n) == IF n = 0 THEN 1 ELSE b * Pow(b, n - 1)

\* reconnectInterval * Math.pow(reconnectDecay, attempts), as <<num, den>>.
nextTimeout(attempts) ==
    <<reconnectInterval * Pow(DecayNum, attempts), Pow(DecayDen, attempts)>>

\* nextTimeout > maxReconnectInterval ? maxReconnectInterval : nextTimeout
RetryDelay(attempts, maxInterval) ==
    LET nt == nextTimeout(attempts)
    IN  IF nt[1] > maxInterval * nt[2] THEN <<maxInterval, 1>> ELSE nt

\* -------------------------------------------------------------------- open
\* open() returns before wiring anything: a reconnect attempt over the limit.
OpenAborts(ra, maxAttempts, attempts) ==
    ra /\ maxAttempts # Null /\ attempts > maxAttempts

\* reconnectAttempts once open() has passed the branch on reconnectAttempt.
OpenAttempts(ra, attempts) == IF ra THEN attempts ELSE 0

\* What that branch emits.
OpenEmits(ra) == IF ra THEN <<>> ELSE <<Ev("connecting")>>

\* open(), entered with reconnectAttempts = attempts.  The transport is
\* constructed first; the limit is tested afterwards.
open(attempts) ==
    LET t == nconstructed + 1
    IN  /\ t <= MaxTransports
        /\ nconstructed' = t
        /\ ws' = t
        /\ tstate' = [tstate EXCEPT ![t] = "CONNECTING"]
        /\ IF OpenAborts(reconnectAttempt, maxReconnectAttempts, attempts)
           THEN /\ reconnectAttempts' = attempts
                /\ emitted' = <<>>
                /\ UNCHANGED <<stall, wired>>
           ELSE /\ reconnectAttempts' = OpenAttempts(reconnectAttempt, attempts)
                /\ emitted' = OpenEmits(reconnectAttempt)
                /\ stall' = stall \cup {t}
                /\ wired' = wired \cup {t}

\* The state the constructor leaves, automaticOpen being true (the default):
\* the fields are set and open() has run once.
Init ==
    /\ reconnectAttempt \in BOOLEAN
    /\ maxReconnectAttempts \in {Null, 1, 2}
    /\ maxReconnectInterval \in {2 * reconnectInterval, DefaultMaxReconnectInterval}
    /\ syncClose \in BOOLEAN
    /\ readyState = "CONNECTING"
    /\ protocol = "null"
    /\ forcedClose = FALSE
    /\ timedOut = FALSE      \* never assigned by the constructor: undefined, falsy
    /\ nconstructed = 1
    /\ ws = 1
    /\ tstate = [t \in Transports |-> IF t = 1 THEN "CONNECTING" ELSE "NEW"]
    /\ received = <<>>
    /\ retry = <<>>
    /\ reconnectAttempts = OpenAttempts(reconnectAttempt, 0)
    /\ emitted = (IF OpenAborts(reconnectAttempt, maxReconnectAttempts, 0)
                  THEN <<>> ELSE OpenEmits(reconnectAttempt))
    /\ stall = (IF OpenAborts(reconnectAttempt, maxReconnectAttempts, 0) THEN {} ELSE {1})
    /\ wired = (IF OpenAborts(reconnectAttempt, maxReconnectAttempts, 0) THEN {} ELSE {1})
    /\ lastOp = Op("constructor", 1)
    /\ result = "none"
    /\ byRetry = {}
    /\ closeEvents = 0
    /\ fails = 0
    /\ firings = 0
    /\ everOpened = FALSE
    /\ stallClosed = {}

\* ------------------------------------------------------ transport callbacks
\* Faulty variant of AttemptsAfterOpen: onopen leaves the counter alone.
AttemptsAfterOpen_Keep(attempts) == attempts

\* reconnectAttempts after ws.onopen.
AttemptsAfterOpen(attempts) == 0

\* Faulty variant of StallAfterOpen: onopen does not clear the stall timer.
StallAfterOpen_Kept(st, t) == st

\* The stall timers pending after ws.onopen of t: clearTimeout(timeout).
StallAfterOpen(st, t) == st \ {t}

\* Faulty variant of ProtocolAfterOpen: onopen does not record the protocol.
ProtocolAfterOpen_Kept(p) == p

\* this.protocol after ws.onopen: the transport's negotiated protocol.
ProtocolAfterOpen(p) == "sub"

\* ws.onopen of wired transport t.
onopen(t) ==
    /\ stall' = StallAfterOpen(stall, t)
    /\ protocol' = ProtocolAfterOpen(protocol)
    /\ readyState' = "OPEN"
    /\ reconnectAttempts' = AttemptsAfterOpen(reconnectAttempts)
    /\ emitted' = <<OpenEv(reconnectAttempt)>>
    /\ closeEvents' = 0
    /\ fails' = 0
    /\ firings' = 0
    /\ everOpened' = TRUE

\* Faulty variant of StateAfterClose: an unforced close leaves readyState.
StateAfterClose_StaysOpen(fc) == IF fc THEN "CLOSED" ELSE "OPEN"

\* Faulty variant of StateAfterClose: onclose does not test forcedClose.
StateAfterClose_AlwaysClosed(fc) == "CLOSED"

\* readyState after ws.onclose.
StateAfterClose(fc) == IF fc THEN "CLOSED" ELSE "CONNECTING"

\* What ws.onclose emits.
CloseEmits(fc, ra, to) ==
    IF fc THEN <<Ev("close")>>
    ELSE <<Ev("connecting")>> \o (IF ~ra /\ ~to THEN <<Ev("close")>> ELSE <<>>)

\* Faulty variant of RetryAfterClose: onclose schedules a retry after a
\* forced close too.
RetryAfterClose_Always(fc, r, delay) == Append(r, delay)

\* Faulty variant of RetryAfterClose: onclose schedules no retry.
RetryAfterClose_Never(fc, r, delay) == r

\* The retry timers pending after ws.onclose: none is added on a forced close.
RetryAfterClose(fc, r, delay) == IF fc THEN r ELSE Append(r, delay)

\* ws.onclose of wired transport t, run while forcedClose = fc and
\* timedOut = to.
onclose(t, fc, to) ==
    /\ stall' = stall \ {t}
    /\ ws' = Null
    /\ readyState' = StateAfterClose(fc)
    /\ emitted' = CloseEmits(fc, reconnectAttempt, to)
    /\ retry' = RetryAfterClose(fc, retry,
                                RetryDelay(reconnectAttempts, maxReconnectInterval))
    /\ closeEvents' = closeEvents + CountOf("close", CloseEmits(fc, reconnectAttempt, to))
    /\ fails' = IF fc THEN fails ELSE fails + 1

\* No callback of the instance runs; the stall timers left pending are st.
NoCallback(st) ==
    /\ stall' = st
    /\ emitted' = <<>>
    /\ UNCHANGED <<ws, readyState, retry, closeEvents, fails>>

\* t.close() called by the instance while forcedClose = fc and timedOut = to;
\* st are the stall timers pending if no callback runs.
TransportClose(t, fc, to, st) ==
    IF tstate[t] \in {"CONNECTING", "OPEN"}
    THEN IF syncClose
         THEN /\ tstate' = [tstate EXCEPT ![t] = "CLOSED"]
              /\ IF t \in wired THEN onclose(t, fc, to) ELSE NoCallback(st)
         ELSE /\ tstate' = [tstate EXCEPT ![t] = "CLOSING"]
              /\ NoCallback(st)
    ELSE /\ UNCHANGED tstate
         /\ NoCallback(st)

\* The transport reaches OPEN.
TransportOpens(t) ==
    /\ tstate[t] = "CONNECTING"
    /\ tstate' = [tstate EXCEPT ![t] = "OPEN"]
    /\ IF t \in wired
       THEN onopen(t)
       ELSE /\ emitted' = <<>>
            /\ UNCHANGED <<stall, protocol, readyState, reconnectAttempts,
                           closeEvents, fails, firings, everOpened>>
    /\ lastOp' = Op("onopen", t)
    /\ result' = "none"
    /\ UNCHANGED <<config, ws, forcedClose, timedOut, retry, nconstructed, wired,
                   received, byRetry, stallClosed>>

\* The transport closes: the peer or the network, or a requested close ends.
TransportCloses(t) ==
    /\ tstate[t] \in {"CONNECTING", "OPEN", "CLOSING"}
    /\ tstate' = [tstate EXCEPT ![t] = "CLOSED"]
    /\ IF t \in wired THEN onclose(t, forcedClose, timedOut) ELSE NoCallback(stall)
    /\ lastOp' = Op("onclose", t)
    /\ result' = "none"
    /\ UNCHANGED <<config, protocol, forcedClose, timedOut, reconnectAttempts,
                   nconstructed, wired, received, byRetry, firings, everOpened,
                   stallClosed>>

\* ws.onmessage / ws.onerror: the event is passed on, no field changes.
TransportMessage(t) ==
    /\ tstate[t] = "OPEN"
    /\ t \in wired
    /\ emitted' = <<Ev("message")>>
    /\ lastOp' = Op("onmessage", t)
    /\ result' = "none"
    /\ UNCHANGED <<config, fields, timers, transports, history>>

TransportError(t) ==
    /\ tstate[t] \in {"CONNECTING", "OPEN", "CLOSING"}
    /\ t \in wired
    /\ emitted' = <<Ev("error")>>
    /\ lastOp' = Op("onerror", t)
    /\ result' = "none"
    /\ UNCHANGED <<config, fields, timers, transports, history>>

\* ------------------------------------------------------------------ timers
\* The stall timer of transport t: timedOut = true; localWs.close();
\* timedOut = false.
StallTimerFires(t) ==
    /\ t \in stall
    /\ TransportClose(t, forcedClose, TRUE, stall \ {t})
    /\ timedOut' = FALSE
    /\ stallClosed' = IF tstate[t] \in {"CONNECTING", "OPEN"}
                      THEN stallClosed \cup {t} ELSE stallClosed
    /\ lastOp' = Op("stall", t)
    /\ result' = "none"
    /\ UNCHANGED <<config, protocol, forcedClose, reconnectAttempts, nconstructed,
                   wired, received, byRetry, firings, everOpened>>

\* A retry timer: reconnectAttempts += 1; open().
RetryTimerFires(i) ==
    /\ i \in DOMAIN retry
    /\ retry' = RemoveAt(retry, i)
    /\ open(reconnectAttempts + 1)
    /\ byRetry' = byRetry \cup {nconstructed + 1}
    /\ firings' = firings + 1
    /\ lastOp' = Op("retry", nconstructed + 1)
    /\ result' = "none"
    /\ stallClosed' = {}
    /\ UNCHANGED <<config, readyState, protocol, forcedClose, timedOut, received,
                   closeEvents, fails, everOpened>>

\* ---------------------------------------------------------- public methods
\* Faulty variant of SendThrows: send() does not test this.ws.
SendThrows_Never(w) == FALSE

\* send(data) throws INVALID_STATE_ERR.
SendThrows(w) == w = Null

send(data) ==
    /\ IF SendThrows(ws)
       THEN /\ result' = "InvalidState"
            /\ UNCHANGED received
       ELSE /\ Len(received) < MaxSends
            /\ result' = "forwarded"
            /\ received' = Append(received, <<ws, data>>)
    /\ emitted' = <<>>
    /\ lastOp' = SendOp(ws, data)
    /\ UNCHANGED <<config, fields, timers, nconstructed, tstate, wired, history>>

\* close(code, reason)
close ==
    /\ forcedClose' = TRUE
    /\ IF ws # Null
       THEN TransportClose(ws, TRUE, timedOut, stall)
       ELSE /\ UNCHANGED tstate
            /\ NoCallback(stall)
    /\ lastOp' = Op("close", ws)
    /\ result' = "none"
    /\ UNCHANGED <<config, protocol, timedOut, reconnectAttempts, nconstructed,
                   wired, received, byRetry, firings, everOpened, stallClosed>>

\* refresh()
refresh ==
    /\ IF ws # Null
       THEN TransportClose(ws, forcedClose, timedOut, stall)
       ELSE /\ UNCHANGED tstate
            /\ NoCallback(stall)
    /\ lastOp' = Op("refresh", ws)
    /\ result' = "none"
    /\ UNCHANGED <<config, protocol, forcedClose, timedOut, reconnectAttempts,
                   nconstructed, wired, received, byRetry, firings, everOpened,
                   stallClosed>>

Next ==
    \/ \E t \in Transports : TransportOpens(t)
    \/ \E t \in Transports : TransportCloses(t)
    \/ \E t \in Transports : TransportMessage(t)
    \/ \E t \in Transports : TransportError(t)
    \/ \E t \in Transports : StallTimerFires(t)
    \/ \E i \in 1..MaxTransports : RetryTimerFires(i)
    \/ \E d \in Data : send(d)
    \/ close
    \/ refresh

Spec == Init /\ [][Next]_vars

\* A close the instance requested of a transport is delivered by it.
CloseCompletes == \E t \in Transports : tstate[t] = "CLOSING" /\ TransportCloses(t)

\* The instances with no attempt limit and the default cap on the delay.
NoLimitInit ==
    /\ Init
    /\ maxReconnectAttempts = Null
    /\ maxReconnectInterval = DefaultMaxReconnectInterval

\* The event loop runs every timer that stays pending, and a transport that
\* was asked to close does close.
FairSpec ==
    /\ NoLimitInit
    /\ [][Next]_vars
    /\ WF_vars(\E t \in Transports : StallTimerFires(t))
    /\ WF_vars(\E i \in 1..MaxTransports : RetryTimerFires(i))
    /\ WF_vars(CloseCompletes)

States == {"CONNECTING", "OPEN", "CLOSED"}

TypeOK ==
    /\ readyState \in States
    /\ ws \in Transports \cup {Null}
    /\ reconnectAttempts \in 0..MaxTransports
    /\ stall \subseteq Transports
    /\ wired \subseteq Transports
    /\ nconstructed \in Transports
    /\ Len(received) <= MaxSends
    /\ timedOut = FALSE
    /\ stallClosed \subseteq Transports

\* The transports constructed and not yet closed.
Live == {t \in Transports : tstate[t] \in {"CONNECTING", "OPEN", "CLOSING"}}

Emitted(type) == \E i \in DOMAIN emitted : emitted[i].type = type

\* Rationals <<num, den>> with den > 0.
RatEq(a, b) == a[1] * b[2] = b[1] * a[2]
RatMin(a, b) == IF a[1] * b[2] <= b[1] * a[2] THEN a ELSE b

\* ------------------------------------------------------------------ claims

\* C1: once close() has been called, no step constructs a transport; in
\* particular not the firing of a retry timer that was pending when close()
\* was called with no transport owned.
C1_NoTransportAfterClose == [][forcedClose => nconstructed' = nconstructed]_vars

\* C2 (its safety half): after close() has been called the state never
\* becomes OPEN.
C2_NeverOpenAfterClose ==
    [][forcedClose /\ readyState # "OPEN" => readyState' # "OPEN"]_vars

\* C3: the state is CLOSED only after a caller close(): in every reachable
\* state, readyState = CLOSED implies forcedClose.
C3_ClosedOnlyAfterClose == readyState = "CLOSED" => forcedClose

\* CLOSED reached after at least one unforced close had been retried.
C3_Witness == readyState = "CLOSED" /\ fails > 0 /\ nconstructed > 1

\* C4: the retry timer scheduled after the (n+1)-th consecutive close without
\* an open has delay min(reconnectInterval * reconnectDecay^n,
\* maxReconnectInterval).
C4_BackoffDelay ==
    \A i \in DOMAIN retry :
        RatEq(retry[i],
              RatMin(<<reconnectInterval * Pow(DecayNum, fails - 1),
                       Pow(DecayDen, fails - 1)>>,
                     <<maxReconnectInterval, 1>>))

\* C5: with maxReconnectAttempts = N, no close() and no transport ever
\* opening, at most N transports are constructed after the initial one.
C5_RetriesStopAtLimit ==
    (maxReconnectAttempts # Null /\ ~forcedClose /\ ~everOpened)
        => nconstructed - 1 <= maxReconnectAttempts

\* C6: with no close() call, at most one `close` event is emitted between two
\* consecutive `open` events (and before the first one).
C6_OneClosePerDisconnect == ~forcedClose => closeEvents <= 1

\* C7: right after every emitted `open` event reconnectAttempts is 0.
C7_AttemptsZeroAfterOpen == Emitted("open") => reconnectAttempts = 0

\* An `open` of the third transport, constructed by a retry timer while the
\* counter was being kept (reconnectAttempt set), with no earlier open.
C7_Witness ==
    /\ Emitted("open")
    /\ reconnectAttempt
    /\ lastOp.t = 3
    /\ byRetry = {2, 3}

\* C8: reconnectAttempts equals the number of retry-timer firings since the
\* last open; the open() a retry timer invokes does not reset it.
C8_AttemptsCountFirings == reconnectAttempts = firings

\* C9: an `open` event carries isReconnect = true exactly when the transport
\* that opened was constructed by a retry timer.
C9_IsReconnectFlag ==
    \A i \in DOMAIN emitted :
        emitted[i].type = "open" => (emitted[i].isReconnect <=> lastOp.t \in byRetry)

\* C10: send(data) with no transport owned fails with InvalidState and
\* changes no field, timer or transport; with a transport owned it hands the
\* payload to that transport and changes nothing else.
C10_SendContract ==
    [][lastOp'.op = "send" =>
        IF ws = Null
        THEN /\ result' = "InvalidState"
             /\ UNCHANGED <<fields, timers, transports>>
        ELSE /\ result' = "forwarded"
             /\ received' = Append(received, <<ws, lastOp'.data>>)
             /\ UNCHANGED <<fields, timers, nconstructed, tstate, wired>>]_vars

\* send() has just failed in the gap between a close and the retry timer.
C10_Witness ==
    /\ lastOp.op = "send"
    /\ result = "InvalidState"
    /\ ws = Null
    /\ Len(retry) = 1
    /\ readyState = "CONNECTING"

\* C11: in every reachable state at most one constructed transport has not
\* yet closed.
C11_OneLiveTransport == Cardinality(Live) <= 1

\* The second transport is connecting after the first one has closed.
C11_Witness ==
    /\ tstate[1] = "CLOSED"
    /\ tstate[2] = "CONNECTING"
    /\ ws = 2

\* The close callback of wired transport lastOp.t has just run, the close
\* having been requested by the stall timer, and no close() had been called.
StallCloseHandled ==
    /\ lastOp.op \in {"onclose", "stall"}
    /\ lastOp.t \in stallClosed
    /\ lastOp.t \in wired
    /\ tstate[lastOp.t] = "CLOSED"
    /\ ~forcedClose

\* C12: the close handling of a transport the stall timer force-closed emits
\* `connecting`, schedules a retry and emits no `close`, whether the close
\* callback runs inside the transport's close() or later.
C12_StallCloseIsSilent ==
    StallCloseHandled => Emitted("connecting") /\ ~Emitted("close") /\ Len(retry) = 1

\* C13: once readyState is CLOSED no step changes a field, constructs a
\* transport, changes a transport, schedules a timer or emits an event.
C13_ClosedIsTerminal ==
    [][readyState = "CLOSED" =>
        /\ UNCHANGED <<fields, nconstructed, tstate, wired>>
        /\ stall' \subseteq stall
        /\ Len(retry') <= Len(retry)
        /\ emitted' = <<>>]_vars

\* close() has just been called on an instance that was already CLOSED.
C13_Witness ==
    /\ readyState = "CLOSED"
    /\ lastOp.op = "close"
    /\ lastOp.t = Null
    /\ tstate[1] = "CLOSED"

\* C14: refresh() called while no transport is owned or while the state is
\* not OPEN changes nothing, and refresh() never sets forcedClose.
C14_RefreshOnlyWhenOpen ==
    [][lastOp'.op = "refresh" =>
        /\ forcedClose' = forcedClose
        /\ (ws = Null \/ readyState # "OPEN")
               => UNCHANGED <<fields, timers, transports>>]_vars

\* C15: an open() invoked by the retry timer with reconnectAttempts over
\* maxReconnectAttempts constructs no transport, owns none afterwards, arms
\* no stall timer and wires no callback.
C15_AbortConstructsNothing ==
    [][(lastOp'.op = "retry"
        /\ OpenAborts(reconnectAttempt, maxReconnectAttempts, reconnectAttempts + 1))
       => /\ nconstructed' = nconstructed
          /\ ws' = Null
          /\ stall' = stall
          /\ wired' = wired]_vars

\* C16: with no attempt limit and no close() call, a constructed transport
\* that is not OPEN (it has not opened yet, or it has closed) is eventually
\* OPEN or followed by the construction of a new transport.  Stated for the
\* transports below the bound on constructions.
C16_RetryNeverStops ==
    \A t \in 1..(MaxTransports - 1) :
        (tstate[t] \in {"CONNECTING", "CLOSING", "CLOSED"}
            /\ maxReconnectAttempts = Null /\ ~forcedClose)
        ~> (tstate[t] = "OPEN" \/ nconstructed > t \/ forcedClose)

\* Two attempts in a row failed without opening and a third transport has
\* been constructed.
C16_Witness ==
    /\ maxReconnectAttempts = Null
    /\ ~forcedClose
    /\ ~everOpened
    /\ nconstructed = 3
    /\ tstate[3] = "CONNECTING"

\* C17: a pending stall timer belongs to a transport that has neither opened
\* nor closed, and at most one stall timer is pending.
C17_StallTimerPending ==
    /\ \A t \in stall : tstate[t] \in {"CONNECTING", "CLOSING"}
    /\ Cardinality(stall) <= 1

\* The second transport has opened and its stall timer is gone.
C17_Witness ==
    /\ tstate[2] = "OPEN"
    /\ readyState = "OPEN"
    /\ stall = {}

\* C18 as claimed: protocol is non-null only while readyState = OPEN.
C18_ProtocolOnlyWhileOpen == protocol # "null" => readyState = "OPEN"

\* C18 as amended: protocol is null exactly until the first transport opens;
\* from then on it keeps the value recorded by the last open, also after the
\* transport has closed.
C18_ProtocolSinceFirstOpen == protocol # "null" <=> everOpened

\* The protocol of a closed transport is still readable while reconnecting.
C18_Witness ==
    /\ protocol # "null"
    /\ readyState = "CONNECTING"
    /\ ws = Null

\* C19: at most one retry timer is pending, and while one is pending no
\* transport is owned and none is live.
C19_OneRetryTimer ==
    /\ Len(retry) <= 1
    /\ Len(retry) = 1 => (ws = Null /\ Live = {})

\* A retry timer pending after the second transport has closed.
C19_Witness ==
    /\ Len(retry) = 1
    /\ tstate[2] = "CLOSED"
    /\ ws = Null

\* C20: readyState = OPEN implies a transport is owned.
C20_OpenOwnsTransport == readyState = "OPEN" => ws # Null

\* send() has just been forwarded while the state is OPEN.
C20_Witness ==
    /\ readyState = "OPEN"
    /\ lastOp.op = "send"
    /\ result = "forwarded"
====
